---------------------------- MODULE Spec2Model ----------------------------
(***************************************************************************)
(* A model of contrast-checker (src/src/main.rs): the two-digit hex        *)
(* decoder hex_to_dec, the colour parser Color::from_hex, and the WCAG     *)
(* luminance / contrast-ratio pipeline on IEEE-754 binary32 values.        *)
(*                                                                         *)
(* A Rust &str is a sequence of Unicode code points (Nat).  str::len() is  *)
(* the length of the UTF-8 encoding in BYTES (ByteLen), str::chars()       *)
(* iterates over the code points (Len).                                    *)
(* A Result is a record with tag "Ok" or "Err"; a call that unwinds        *)
(* (unwrap on None/Err, checked arithmetic overflow) has tag "Panic".      *)
(***************************************************************************)
EXTENDS Integers, Sequences, FiniteSets, TLC

VARIABLES
    hex,              \* the &str argument of hex_to_dec / Color::from_hex
    overflow_checks,  \* build profile: TRUE = debug (overflow panics), FALSE = release (wraps)
    channels,         \* the byte triple <<r, g, b>> a hex string was written from
    foreground,       \* first Color argument of contrast_ratio
    background,       \* second Color argument of contrast_ratio
    pc,               \* position of the caller
    ret,              \* value returned by the last hex_to_dec / from_hex call
    ratio             \* contrast ratios computed so far: [fb |-> .., bf |-> ..]

vars == <<hex, overflow_checks, channels, foreground, background, pc, ret, ratio>>

-----------------------------------------------------------------------------
(* Bounds of the model *)

\* longest string handed to hex_to_dec
MaxDecoderLen == 3
\* longest trimmed body handed to Color::from_hex
MaxCoreLen == 7
\* the byte values of the round-trip check are the multiples of ByteStride, and 255
ByteStride == 15
\* the channel values of the contrast check are the multiples of ContrastStride, and 255
ContrastStride == 85

-----------------------------------------------------------------------------
(* Strings *)

\* number of bytes of the UTF-8 encoding of code point c
Utf8Len(c) == IF c < 128 THEN 1 ELSE IF c < 2048 THEN 2 ELSE IF c < 65536 THEN 3 ELSE 4

RECURSIVE ByteLen(_)
\* str::len(): the length in bytes
ByteLen(s) == IF s = <<>> THEN 0 ELSE Utf8Len(Head(s)) + ByteLen(Tail(s))

\* str::is_empty()
is_empty(s) == ByteLen(s) = 0

\* str::is_ascii()
is_ascii(s) == \A i \in 1..Len(s) : s[i] < 128

\* char::to_lowercase on the code points from_hex can hand to it (it is called
\* on all-ASCII strings only): A-Z map to a-z, every other ASCII character to itself.
to_lowercase_char(c) == IF c >= 65 /\ c <= 90 THEN c + 32 ELSE c

\* str::to_lowercase()
to_lowercase(s) == [i \in 1..Len(s) |-> to_lowercase_char(s[i])]

\* char::is_whitespace(): the Unicode White_Space property
is_whitespace(c) ==
    \/ c >= 9 /\ c <= 13
    \/ c \in {32, 133, 160, 5760, 8232, 8233, 8239, 8287, 12288}
    \/ c >= 8192 /\ c <= 8202

RECURSIVE trim_start(_)
trim_start(s) ==
    IF s # <<>> /\ is_whitespace(Head(s)) THEN trim_start(Tail(s)) ELSE s

RECURSIVE trim_end(_)
trim_end(s) ==
    IF s # <<>> /\ is_whitespace(s[Len(s)])
    THEN trim_end(SubSeq(s, 1, Len(s) - 1)) ELSE s

\* str::trim()
trim(s) == trim_end(trim_start(s))

\* str::starts_with("#")
starts_with_hash(s) == s # <<>> /\ s[1] = 35

\* &s[from..to] on an all-ASCII string, where byte offsets are character offsets
\* (0-based, `to` exclusive).  Slicing panics when from > to or to > len.
SliceOk(s, from, to) == from <= to /\ to <= Len(s)
Slice(s, from, to) == SubSeq(s, from + 1, to)

-----------------------------------------------------------------------------
(* Hex Decoder *)

Ok(v) == [tag |-> "Ok", val |-> v, err |-> "-"]
Err(e) == [tag |-> "Err", val |-> 0, err |-> e]
Panic == [tag |-> "Panic", val |-> 0, err |-> "-"]

\* c | 0b10_0000 on a code point
or_0x20(c) == IF (c \div 32) % 2 = 0 THEN c + 32 ELSE c

\* to_digit without its final comparison against the radix
to_digit_unchecked(c, radix) ==
    IF c >= 48 /\ c - 48 < 10 THEN <<c - 48>>
    ELSE IF or_0x20(c) >= 97 THEN <<or_0x20(c) - 97 + 10>>
    ELSE <<>>

\* char::to_digit(radix) for 10 < radix <= 36, as an Option<u32>: <<>> is None,
\* <<d>> is Some(d).  The wrapping subtractions of the library wrap a character
\* below '0' (below 'a' after | 0x20) to a value above every radix.
to_digit(c, radix) ==
    IF c >= 48 /\ c - 48 < 10 THEN <<c - 48>>
    ELSE LET digit == IF or_0x20(c) >= 97 THEN or_0x20(c) - 97 + 10 ELSE radix
         IN IF digit < radix THEN <<digit>> ELSE <<>>

\* line 52 with the two nibbles exchanged: b * 16u8 + a
u8_combine_swapped(a, b, checks) ==
    IF a > 255 \/ b > 255 THEN Panic
    ELSE IF b * 16 > 255 /\ checks THEN Panic
    ELSE LET p == (b * 16) % 256
         IN IF p + a > 255 /\ checks THEN Panic ELSE Ok((p + a) % 256)

\* u8 arithmetic a * 16u8 + b of line 52: u8::try_from(x).ok().unwrap() panics above
\* 255; an overflowing * or + panics with overflow checks and wraps without.
u8_combine(a, b, checks) ==
    IF a > 255 \/ b > 255 THEN Panic
    ELSE IF a * 16 > 255 /\ checks THEN Panic
    ELSE LET p == (a * 16) % 256
         IN IF p + b > 255 /\ checks THEN Panic ELSE Ok((p + b) % 256)

hex_to_dec(s, checks) ==
    IF ByteLen(s) # 2 THEN Err("InputLengthOutOfRange")
    \* chars.next().unwrap() on an exhausted iterator
    ELSE IF Len(s) < 2 THEN Panic
    ELSE LET left == s[1]
             right == s[2]
             left_value == to_digit(left, 16)
             right_value == to_digit(right, 16)
         IN IF left_value = <<>> THEN Err("LeftDigitInvalid")
            ELSE IF right_value = <<>> THEN Err("RightDigitInvalid")
            ELSE IF left_value[1] > 15 THEN Err("LeftDigitOutOfRange")
            ELSE IF right_value[1] > 15 THEN Err("RightDigitOutOfRange")
            ELSE u8_combine(left_value[1], right_value[1], checks)

-----------------------------------------------------------------------------
(* IEEE-754 binary32 (f32)                                                 *)
(*                                                                         *)
(* An f32 is its bit pattern, a Nat below 2^31 (sign bit 0).  The pipeline *)
(* produces only +0.0 and positive normal numbers from 8-bit channels, and *)
(* for those the order of the bit patterns is the order of the values.     *)
(* Every operation rounds to nearest, ties to even.                        *)

RECURSIVE Pow2(_)
Pow2(n) == IF n = 0 THEN 1 ELSE 2 * Pow2(n - 1)

\* 2^23: the implicit leading bit of a 24-bit significand
Hidden == Pow2(23)

\* biased exponent and 24-bit significand: value = Man * 2^(Exp - 150)
F32Exp(x) == x \div Hidden
F32Man(x) == IF x = 0 THEN 0 ELSE Hidden + (x % Hidden)

\* significand m in [2^23, 2^24] truncated at biased exponent e, rounded up or not
F32Pack(m, e, up) ==
    LET m1 == IF up THEN m + 1 ELSE m
    IN IF m1 = 2 * Hidden THEN (e + 1) * Hidden ELSE e * Hidden + (m1 - Hidden)

\* round to nearest even: rem is the discarded part, half is half a unit in the last place
RoundUp(m, rem, half) == rem > half \/ (rem = half /\ m % 2 = 1)

RECURSIVE BitLen(_)
BitLen(n) == IF n = 0 THEN 0 ELSE 1 + BitLen(n \div 2)

\* f32::from(u8): exact
f32_from_u8(n) ==
    IF n = 0 THEN 0
    ELSE LET k == BitLen(n) - 1
         IN F32Pack(n * Pow2(23 - k), 127 + k, FALSE)

\* the integer value of an f32 holding a whole number below 2^24 (the inverse of f32_from_u8)
f32_to_int(x) ==
    IF x = 0 THEN 0 ELSE F32Man(x) \div Pow2(150 - F32Exp(x))

\* x + y for x, y >= 0, with three guard bits and a sticky bit
F32Add(x, y) ==
    IF x = 0 THEN y
    ELSE IF y = 0 THEN x
    ELSE LET a == IF x >= y THEN x ELSE y
             b == IF x >= y THEN y ELSE x
             d == F32Exp(a) - F32Exp(b)
             A == F32Man(a) * 8
             B == IF d >= 27 THEN 1
                  ELSE LET p == Pow2(d)
                       IN ((F32Man(b) * 8) \div p)
                          + (IF (F32Man(b) * 8) % p # 0 /\ ((F32Man(b) * 8) \div p) % 2 = 0
                             THEN 1 ELSE 0)
             S == A + B
             carry == S >= 16 * Hidden
             T == IF carry THEN (S \div 2) + (IF S % 2 = 1 /\ (S \div 2) % 2 = 0 THEN 1 ELSE 0)
                  ELSE S
             e == IF carry THEN F32Exp(a) + 1 ELSE F32Exp(a)
         IN F32Pack(T \div 8, e, RoundUp(T \div 8, T % 8, 4))

\* the 48-bit product of two 24-bit significands as <<high 24 bits, low 24 bits>>
WideMul(ma, mb) ==
    LET a1 == ma \div 4096
        a0 == ma % 4096
        b1 == mb \div 4096
        b0 == mb % 4096
        mid == a1 * b0 + a0 * b1
        t == a0 * b0 + (mid % 4096) * 4096
    IN <<a1 * b1 + (mid \div 4096) + (t \div (2 * Hidden)), t % (2 * Hidden)>>

\* x * y for x, y >= 0
F32Mul(x, y) ==
    IF x = 0 \/ y = 0 THEN 0
    ELSE LET P == WideMul(F32Man(x), F32Man(y))
             hi == P[1]
             lo == P[2]
             e == F32Exp(x) + F32Exp(y)
         IN IF hi >= Hidden
            THEN F32Pack(hi, e - 126, RoundUp(hi, lo, Hidden))
            ELSE LET m == 2 * hi + (lo \div Hidden)
                 IN F32Pack(m, e - 127, RoundUp(m, 2 * (lo % Hidden), Hidden))

RECURSIVE LongDiv(_, _, _, _)
\* k more quotient bits of r / d, appended to q: <<quotient, remainder>>
LongDiv(q, r, d, k) ==
    IF k = 0 THEN <<q, r>>
    ELSE IF 2 * r >= d THEN LongDiv(2 * q + 1, 2 * r - d, d, k - 1)
    ELSE LongDiv(2 * q, 2 * r, d, k - 1)

\* x / y for x >= 0, y > 0
F32Div(x, y) ==
    IF x = 0 THEN 0
    ELSE LET ma == F32Man(x)
             mb == F32Man(y)
             ge == ma >= mb
             Q == LongDiv(ma \div mb, ma % mb, mb, IF ge THEN 23 ELSE 24)
             e == F32Exp(x) - F32Exp(y) + (IF ge THEN 127 ELSE 126)
         IN F32Pack(Q[1], e, RoundUp(Q[1], 2 * Q[2], mb))

\* the f32 literals of the source
F255 == 1132396544
F0_04045 == 1025879782
F12_92 == 1095678034
F0_055 == 1029785518
F1_055 == 1065814589
F0_2126 == 1046066128
F0_7152 == 1060575065
F0_0722 == 1033100696
F0_05 == 1028443341

\* f32::powf(x, 2.4f32), as libm computes it, on the 245 arguments
\* (c/255 + 0.055) / 1.055, c in 11..255, that the pipeline hands to it:
\* PowfVals[i] is the power of PowfArgs[i].
PowfArgs ==
    <<
       1035895257, 1036394161, 1036893066, 1037391970, 1037890874, 1038389779,
       1038888683, 1039387587, 1039886492, 1040286394, 1040535846, 1040785298,
       1041034750, 1041284202, 1041533655, 1041783107, 1042032559, 1042282011,
       1042531463, 1042780915, 1043030367, 1043279820, 1043529272, 1043778724,
       1044028176, 1044277628, 1044527080, 1044776533, 1045025985, 1045275437,
       1045524889, 1045774341, 1046023793, 1046273245, 1046522698, 1046772150,
       1047021602, 1047271054, 1047520506, 1047769958, 1048019410, 1048268863,
       1048518315, 1048671883, 1048796609, 1048921336, 1049046062, 1049170788,
       1049295514, 1049420240, 1049544966, 1049669692, 1049794418, 1049919145,
       1050043871, 1050168597, 1050293323, 1050418049, 1050542775, 1050667502,
       1050792228, 1050916954, 1051041680, 1051166406, 1051291132, 1051415858,
       1051540584, 1051665310, 1051790036, 1051914762, 1052039488, 1052164214,
       1052288940, 1052413667, 1052538393, 1052663119, 1052787845, 1052912571,
       1053037297, 1053162023, 1053286749, 1053411475, 1053536201, 1053660927,
       1053785653, 1053910379, 1054035105, 1054159832, 1054284558, 1054409284,
       1054534010, 1054658736, 1054783462, 1054908188, 1055032914, 1055157640,
       1055282366, 1055407092, 1055531818, 1055656544, 1055781271, 1055905997,
       1056030723, 1056155448, 1056280174, 1056404900, 1056529626, 1056654352,
       1056779078, 1056903804, 1056996569, 1057058932, 1057121295, 1057183658,
       1057246021, 1057308384, 1057370747, 1057433111, 1057495474, 1057557837,
       1057620200, 1057682563, 1057744927, 1057807290, 1057869653, 1057932016,
       1057994379, 1058056742, 1058119105, 1058181468, 1058243831, 1058306194,
       1058368557, 1058430920, 1058493283, 1058555646, 1058618009, 1058680372,
       1058742735, 1058805098, 1058867461, 1058929824, 1058992187, 1059054550,
       1059116913, 1059179276, 1059241639, 1059304002, 1059366365, 1059428729,
       1059491092, 1059553455, 1059615818, 1059678181, 1059740544, 1059802907,
       1059865270, 1059927633, 1059989996, 1060052359, 1060114722, 1060177085,
       1060239448, 1060301811, 1060364174, 1060426537, 1060488900, 1060551263,
       1060613626, 1060675989, 1060738352, 1060800715, 1060863078, 1060925441,
       1060987804, 1061050167, 1061112530, 1061174894, 1061237257, 1061299620,
       1061361983, 1061424346, 1061486709, 1061549072, 1061611435, 1061673798,
       1061736161, 1061798524, 1061860887, 1061923250, 1061985613, 1062047976,
       1062110339, 1062172702, 1062235065, 1062297428, 1062359791, 1062422154,
       1062484517, 1062546880, 1062609243, 1062671606, 1062733969, 1062796332,
       1062858695, 1062921059, 1062983422, 1063045785, 1063108148, 1063170511,
       1063232874, 1063295237, 1063357600, 1063419963, 1063482326, 1063544689,
       1063607052, 1063669415, 1063731778, 1063794141, 1063856504, 1063918867,
       1063981230, 1064043593, 1064105956, 1064168319, 1064230682, 1064293045,
       1064355408, 1064417771, 1064480133, 1064542497, 1064604860, 1064667224,
       1064729586, 1064791950, 1064854312, 1064916676, 1064979038, 1065041402,
       1065103764, 1065166128, 1065228490, 1065290854, 1065353216
    >>

PowfVals ==
    <<
       995840397, 997257613, 998498758, 999286294, 1000114173, 1000982967,
       1001893231, 1002845513, 1003840353, 1004878273, 1005959792, 1006859189,
       1007444306, 1008051971, 1008682430, 1009335915, 1010012663, 1010712905,
       1011436867, 1012184775, 1012956849, 1013753311, 1014574370, 1015220904,
       1015656351, 1016104411, 1016565189, 1017038786, 1017525299, 1018024829,
       1018537473, 1019063328, 1019602489, 1020155051, 1020721109, 1021300752,
       1021894073, 1022501164, 1023122113, 1023583593, 1023908060, 1024239590,
       1024578223, 1024924003, 1025276974, 1025637180, 1026004658, 1026379451,
       1026761600, 1027151147, 1027548131, 1027952593, 1028364572, 1028784111,
       1029211242, 1029646007, 1030088446, 1030538596, 1030996495, 1031462185,
       1031867239, 1032107925, 1032352560, 1032601162, 1032853750, 1033110341,
       1033370954, 1033635606, 1033904315, 1034177099, 1034453975, 1034734960,
       1035020072, 1035309330, 1035602747, 1035900341, 1036202130, 1036508130,
       1036818358, 1037132831, 1037451564, 1037774575, 1038101879, 1038433493,
       1038769433, 1039109714, 1039454353, 1039803368, 1040156769, 1040350983,
       1040532096, 1040715427, 1040900984, 1041088773, 1041278804, 1041471083,
       1041665618, 1041862416, 1042061485, 1042262832, 1042466467, 1042672393,
       1042880620, 1043091152, 1043304001, 1043519172, 1043736673, 1043956510,
       1044178691, 1044403222, 1044630111, 1044859364, 1045090990, 1045324994,
       1045561383, 1045800166, 1046041347, 1046284939, 1046530940, 1046779360,
       1047030207, 1047283488, 1047539212, 1047797380, 1048058000, 1048321080,
       1048581314, 1048715324, 1048850573, 1048987066, 1049124805, 1049263794,
       1049404035, 1049545533, 1049688289, 1049832308, 1049977592, 1050124145,
       1050271970, 1050421070, 1050571447, 1050723106, 1050876050, 1051030280,
       1051185801, 1051342616, 1051500727, 1051660137, 1051820851, 1051982872,
       1052146200, 1052310839, 1052476793, 1052644065, 1052812657, 1052982573,
       1053153815, 1053326387, 1053500291, 1053675531, 1053852109, 1054030028,
       1054209291, 1054389901, 1054571860, 1054755173, 1054939841, 1055125867,
       1055313255, 1055502006, 1055692125, 1055883613, 1056076474, 1056270710,
       1056466324, 1056663319, 1056861698, 1057013037, 1057113614, 1057214887,
       1057316857, 1057419526, 1057522895, 1057626966, 1057731739, 1057837216,
       1057943399, 1058050289, 1058157886, 1058266193, 1058375211, 1058484941,
       1058595385, 1058706543, 1058818417, 1058931009, 1059044319, 1059158350,
       1059273102, 1059388576, 1059504774, 1059621697, 1059739347, 1059857725,
       1059976832, 1060096670, 1060217239, 1060338540, 1060460576, 1060583347,
       1060706854, 1060831100, 1060956085, 1061081810, 1061208276, 1061335486,
       1061463440, 1061592139, 1061721585, 1061851778, 1061982721, 1062114414,
       1062246859, 1062380056, 1062514007, 1062648714, 1062784176, 1062920397,
       1063057376, 1063195116, 1063333614, 1063472879, 1063612905, 1063753699,
       1063895254, 1064037581, 1064180671, 1064324536, 1064469167, 1064614574,
       1064760750, 1064907705, 1065055430, 1065203936, 1065353216
    >>

powf_2_4(x) == PowfVals[CHOOSE i \in 1..Len(PowfArgs) : PowfArgs[i] = x]

-----------------------------------------------------------------------------
(* Color Model *)

\* Color::new
Color_new(r, g, b) ==
    [red |-> f32_from_u8(r), green |-> f32_from_u8(g), blue |-> f32_from_u8(b)]

\* Color::normalize
normalize(color) ==
    [red |-> F32Div(color.red, F255),
     green |-> F32Div(color.green, F255),
     blue |-> F32Div(color.blue, F255)]

-----------------------------------------------------------------------------
(* Color::from_hex *)

NoColor == [red |-> 0, green |-> 0, blue |-> 0]
ColorOk(c) == [tag |-> "Ok", color |-> c, err |-> "-"]
ColorErr(e) == [tag |-> "Err", color |-> NoColor, err |-> e]
ColorPanic == [tag |-> "Panic", color |-> NoColor, err |-> "-"]

\* lines 98-109 without the removal of the leading '#'
decode_channels_keep_hash(trimmed, checks) ==
    LET red == hex_to_dec(Slice(trimmed, 0, 2), checks)
        green == hex_to_dec(Slice(trimmed, 2, 4), checks)
        blue == hex_to_dec(Slice(trimmed, 4, Len(trimmed)), checks)
    IN IF red.tag = "Ok" /\ green.tag = "Ok" /\ blue.tag = "Ok"
       THEN ColorOk([red |-> f32_from_u8(red.val),
                     green |-> f32_from_u8(green.val),
                     blue |-> f32_from_u8(blue.val)])
       ELSE ColorPanic

\* lines 94-109 of from_hex, on the trimmed lowercase input that passed the
\* length check: strip one leading '#', slice the three pairs, unwrap each
\* hex_to_dec result (an Err panics).
decode_channels(trimmed, checks) ==
    LET trimmed_input == IF starts_with_hash(trimmed)
                         THEN Slice(trimmed, 1, Len(trimmed)) ELSE trimmed
    IN IF ~SliceOk(trimmed_input, 0, 2) \/ ~SliceOk(trimmed_input, 2, 4)
          \/ ~SliceOk(trimmed_input, 4, Len(trimmed_input))
       THEN ColorPanic
       ELSE LET red == hex_to_dec(Slice(trimmed_input, 0, 2), checks)
                green == hex_to_dec(Slice(trimmed_input, 2, 4), checks)
                blue == hex_to_dec(Slice(trimmed_input, 4, Len(trimmed_input)), checks)
            IN IF red.tag = "Ok" /\ green.tag = "Ok" /\ blue.tag = "Ok"
               THEN ColorOk([red |-> f32_from_u8(red.val),
                             green |-> f32_from_u8(green.val),
                             blue |-> f32_from_u8(blue.val)])
               ELSE ColorPanic

\* from_hex with the length check moved before the ASCII check
from_hex_length_first(s, checks) ==
    IF is_empty(s) THEN ColorErr("InputIsEmpty")
    ELSE LET trimmed_input == trim(to_lowercase(s))
         IN IF ByteLen(trimmed_input) < 6 \/ ByteLen(trimmed_input) > 7
            THEN ColorErr("InvalidInputLength")
            ELSE IF ~is_ascii(s) THEN ColorErr("InputIsNotAscii")
            ELSE decode_channels(trimmed_input, checks)

from_hex(s, checks) ==
    IF is_empty(s) THEN ColorErr("InputIsEmpty")
    ELSE IF ~is_ascii(s) THEN ColorErr("InputIsNotAscii")
    ELSE LET lowercase == to_lowercase(s)
             trimmed_input == trim(lowercase)
         IN IF ByteLen(trimmed_input) < 6 \/ ByteLen(trimmed_input) > 7
            THEN ColorErr("InvalidInputLength")
            ELSE decode_channels(trimmed_input, checks)

-----------------------------------------------------------------------------
(* Luminance/Contrast Engine *)

srgb_component_to_cie_xyz(normalized_component) ==
    IF normalized_component <= F0_04045
    THEN F32Div(normalized_component, F12_92)
    ELSE powf_2_4(F32Div(F32Add(normalized_component, F0_055), F1_055))

relative_luminance(color) ==
    LET normalized_color == normalize(color)
        red_component_luminance == srgb_component_to_cie_xyz(normalized_color.red)
        green_component_luminance == srgb_component_to_cie_xyz(normalized_color.green)
        blue_component_luminance == srgb_component_to_cie_xyz(normalized_color.blue)
    IN F32Add(F32Add(F32Mul(F0_2126, red_component_luminance),
                     F32Mul(F0_7152, green_component_luminance)),
              F32Mul(F0_0722, blue_component_luminance))

\* contrast_ratio without the ordering of the two luminances
contrast_ratio_unordered(fg, bg) ==
    F32Div(F32Add(relative_luminance(fg), F0_05), F32Add(relative_luminance(bg), F0_05))

\* contrast_ratio with the comparison of the two luminances inverted
contrast_ratio_inverted(fg, bg) ==
    LET foreground_luminance == relative_luminance(fg)
        background_luminance == relative_luminance(bg)
    IN IF foreground_luminance < background_luminance
       THEN F32Div(F32Add(foreground_luminance, F0_05), F32Add(background_luminance, F0_05))
       ELSE F32Div(F32Add(background_luminance, F0_05), F32Add(foreground_luminance, F0_05))

contrast_ratio(fg, bg) ==
    LET foreground_luminance == relative_luminance(fg)
        background_luminance == relative_luminance(bg)
    IN IF foreground_luminance > background_luminance
       THEN F32Div(F32Add(foreground_luminance, F0_05), F32Add(background_luminance, F0_05))
       ELSE F32Div(F32Add(background_luminance, F0_05), F32Add(foreground_luminance, F0_05))

-----------------------------------------------------------------------------
(* Inputs *)

RECURSIVE Strings(_, _)
\* every string over alphabet A of at most n characters
Strings(A, n) ==
    IF n = 0 THEN {<<>>}
    ELSE LET S == Strings(A, n - 1)
         IN S \cup {Append(s, c) : s \in {t \in S : Len(t) = n - 1}, c \in A}

\* 0-9, A-F, a-f
HexDigits == (48..57) \cup (65..70) \cup (97..102)

\* neighbours of the hex digits in the code table, '#', ' ', and characters of
\* 2, 3 and 4 UTF-8 bytes: / : @ G ` g, U+00E9, U+20AC, U+FF11, U+1F600
OtherChars == {47, 58, 64, 71, 96, 103, 35, 32, 233, 8364, 65297, 128512}

\* '1', 'F', 'f', 'g', ' ', U+00E9, U+20AC
FewChars == {49, 70, 102, 103, 32, 233, 8364}

\* arguments of hex_to_dec: every string of at most two of the characters above,
\* and the ones of at most n characters over a few of them
DecoderInputs(n) ==
    Strings(HexDigits \cup OtherChars, 2) \cup Strings(FewChars, n)

\* '#', 'F', 'g', U+00E9
CoreChars == {35, 70, 103, 233}

\* ' ' before, '\n' after
LeadPads == {<<>>, <<32>>}
TrailPads == {<<>>, <<10>>}

\* bodies of the arguments of Color::from_hex: at most n characters
ParserCores(n) == Strings(CoreChars, n)

\* the byte values that are multiples of stride, and 255
SampleBytes(stride) == {b \in 0..255 : b % stride = 0} \cup {255}

\* the hex digit of nibble n
HexDigitChar(n, upper) ==
    IF n < 10 THEN 48 + n ELSE (IF upper THEN 65 ELSE 97) + (n - 10)

\* the two hex digits of byte b; "mixed" writes the high digit in upper case and
\* the low digit in lower case
HexPair(b, case) ==
    <<HexDigitChar(b \div 16, case \in {"upper", "mixed"}),
      HexDigitChar(b % 16, case = "upper")>>

\* RRGGBB
HexEncoding(rgb, case) ==
    HexPair(rgb[1], case) \o HexPair(rgb[2], case) \o HexPair(rgb[3], case)

Cases == {"lower", "upper", "mixed"}

\* Color::new(242, 108, 167) and Color::from_hex("#FFFFFF") of main
Target == Color_new(242, 108, 167)
White == Color_new(255, 255, 255)

SampleColors ==
    {Color_new(r, g, b) : r \in SampleBytes(ContrastStride),
                          g \in SampleBytes(ContrastStride),
                          b \in SampleBytes(ContrastStride)} \cup {Target}

-----------------------------------------------------------------------------
(* The callers *)

NoResult == [tag |-> "None", val |-> 0, err |-> "-"]
NoRatio == [fb |-> 0, bf |-> 0]

\* a caller about to hand a string to hex_to_dec
InitDecoder ==
    /\ hex \in DecoderInputs(MaxDecoderLen)
    /\ overflow_checks \in BOOLEAN
    /\ channels = <<>>
    /\ foreground = NoColor
    /\ background = NoColor
    /\ pc = "decode"
    /\ ret = NoResult
    /\ ratio = NoRatio

\* a caller about to hand a string to Color::from_hex: a body with or without
\* whitespace around it
InitParser ==
    /\ \E lead \in LeadPads, core \in ParserCores(MaxCoreLen), trail \in TrailPads :
          hex = lead \o core \o trail
    /\ overflow_checks \in BOOLEAN
    /\ channels = <<>>
    /\ foreground = NoColor
    /\ background = NoColor
    /\ pc = "parse"
    /\ ret = NoResult
    /\ ratio = NoRatio

\* a caller holding a byte triple it will write as a hex string and parse back
InitRoundTrip ==
    /\ hex = <<>>
    /\ overflow_checks \in BOOLEAN
    /\ channels \in SampleBytes(ByteStride) \X SampleBytes(ByteStride) \X SampleBytes(ByteStride)
    /\ foreground = NoColor
    /\ background = NoColor
    /\ pc = "write"
    /\ ret = NoResult
    /\ ratio = NoRatio

\* main: two colours, compared in both orders
InitContrast ==
    /\ hex = <<>>
    /\ overflow_checks = TRUE
    /\ channels = <<>>
    /\ foreground \in SampleColors
    /\ background \in SampleColors
    /\ pc = "contrast"
    /\ ret = NoResult
    /\ ratio = NoRatio

Init == InitDecoder \/ InitParser \/ InitRoundTrip \/ InitContrast

HexToDecCall ==
    /\ pc = "decode"
    /\ ret' = hex_to_dec(hex, overflow_checks)
    /\ pc' = "decoded"
    /\ UNCHANGED <<hex, overflow_checks, channels, foreground, background, ratio>>

WriteHex ==
    /\ pc = "write"
    /\ \E case \in Cases, hash \in {<<>>, <<35>>}, lead \in LeadPads, trail \in TrailPads :
          hex' = lead \o hash \o HexEncoding(channels, case) \o trail
    /\ pc' = "parse"
    /\ UNCHANGED <<overflow_checks, channels, foreground, background, ret, ratio>>

FromHexCall ==
    /\ pc = "parse"
    /\ ret' = from_hex(hex, overflow_checks)
    /\ pc' = "parsed"
    /\ UNCHANGED <<hex, overflow_checks, channels, foreground, background, ratio>>

\* contrast_ratio(&target, &white) of main
ContrastRatioCall ==
    /\ pc = "contrast"
    /\ ratio' = [ratio EXCEPT !.fb = contrast_ratio(foreground, background)]
    /\ pc' = "swapped"
    /\ UNCHANGED <<hex, overflow_checks, channels, foreground, background, ret>>

\* contrast_ratio(&white, &target) of main
ContrastRatioSwappedCall ==
    /\ pc = "swapped"
    /\ ratio' = [ratio EXCEPT !.bf = contrast_ratio(background, foreground)]
    /\ pc' = "done"
    /\ UNCHANGED <<hex, overflow_checks, channels, foreground, background, ret>>

NextDecoder == HexToDecCall
NextParser == FromHexCall
NextRoundTrip == WriteHex \/ FromHexCall
NextContrast == ContrastRatioCall \/ ContrastRatioSwappedCall

Next == HexToDecCall \/ WriteHex \/ FromHexCall \/ ContrastRatioCall \/ ContrastRatioSwappedCall

SpecDecoder == InitDecoder /\ [][NextDecoder]_vars
SpecParser == InitParser /\ [][NextParser]_vars
SpecRoundTrip == InitRoundTrip /\ [][NextRoundTrip]_vars
SpecContrast == InitContrast /\ [][NextContrast]_vars
Spec == Init /\ [][Next]_vars

-----------------------------------------------------------------------------
(* Vocabulary of the properties, stated without the decoder's own operators *)

LowerDigits == <<48, 49, 50, 51, 52, 53, 54, 55, 56, 57, 97, 98, 99, 100, 101, 102>>
UpperDigits == <<48, 49, 50, 51, 52, 53, 54, 55, 56, 57, 65, 66, 67, 68, 69, 70>>

IsHexDigit(c) == \E i \in 1..16 : c = LowerDigits[i] \/ c = UpperDigits[i]

\* the value 0..15 of hex digit c
NibbleOf(c) == (CHOOSE i \in 1..16 : c = LowerDigits[i] \/ c = UpperDigits[i]) - 1

HasNonAscii(s) == \E i \in 1..Len(s) : s[i] > 127

\* the input lowercased and trimmed of ASCII whitespace, for an all-ASCII input
Trimmed(s) == trim(to_lowercase(s))

\* RRGGBB or #RRGGBB by length and leading character
AcceptedShape(t) ==
    \/ Len(t) = 6 /\ t[1] # 35
    \/ Len(t) = 7 /\ t[1] = 35

\* the three channel substrings from_hex cuts out of a trimmed input of 6 or 7 bytes
BodyOf(t) == IF t[1] = 35 THEN Tail(t) ELSE t
PairsOf(t) ==
    {SubSeq(BodyOf(t), 1, 2), SubSeq(BodyOf(t), 3, 4), SubSeq(BodyOf(t), 5, Len(BodyOf(t)))}

\* 1.0f32
One == f32_from_u8(1)

\* the f32 of every byte value
U8AsF32 == [x \in 0..255 |-> f32_from_u8(x)]

-----------------------------------------------------------------------------
(* Properties *)

\* C1: from_hex returns InvalidInputLength for every non-empty ASCII input whose
\* lowercased, trimmed form is neither 6 characters without a leading '#' nor
\* 7 characters with one.
C1_InvalidLengthUnlessAcceptedShape ==
    (pc = "parsed" /\ hex # <<>> /\ ~HasNonAscii(hex) /\ ~AcceptedShape(Trimmed(hex)))
        => ret = ColorErr("InvalidInputLength")

\* C2: an input that passes the empty, ASCII and length checks of from_hex and has
\* a channel pair the hex decoder rejects yields a typed error: no panic, no Color.
C2_DecodeFailureIsTypedError ==
    (/\ pc = "parsed" /\ hex # <<>> /\ ~HasNonAscii(hex)
     /\ Len(Trimmed(hex)) \in {6, 7}
     /\ \E p \in PairsOf(Trimmed(hex)) : hex_to_dec(p, overflow_checks).tag # "Ok")
        => ret.tag = "Err"

\* C3: on two hex digits of either case hex_to_dec returns Ok(high * 16 + low),
\* a value in 0..255, whether or not the build checks overflow.
C3_TwoHexDigitsDecode ==
    (pc = "decoded" /\ Len(hex) = 2 /\ IsHexDigit(hex[1]) /\ IsHexDigit(hex[2]))
        => /\ ret = Ok(NibbleOf(hex[1]) * 16 + NibbleOf(hex[2]))
           /\ ret.val \in 0..255

C3_Witness ==
    pc = "decoded" /\ hex = <<49, 97>> /\ ret = Ok(26)

\* C4: hex_to_dec returns InputLengthOutOfRange for every input that is not exactly
\* 2 characters long, and panics on no input.
C4_LengthErrorNeverPanic ==
    pc = "decoded" =>
        /\ Len(hex) # 2 => ret = Err("InputLengthOutOfRange")
        /\ ret.tag # "Panic"

\* C5: on a 2-character input, a first character that is no hex digit yields
\* LeftDigitInvalid, a hex digit followed by a character that is none yields
\* RightDigitInvalid, and neither case yields success.
C5_ErrorPinpointsCharacter ==
    (pc = "decoded" /\ Len(hex) = 2) =>
        /\ ~IsHexDigit(hex[1]) => ret = Err("LeftDigitInvalid")
        /\ (IsHexDigit(hex[1]) /\ ~IsHexDigit(hex[2])) => ret = Err("RightDigitInvalid")

\* C6: from_hex checks empty, then non-ASCII, then length: the empty string yields
\* InputIsEmpty, a non-empty input with a non-ASCII character yields InputIsNotAscii
\* whatever its length, InvalidInputLength is returned only for non-empty all-ASCII
\* inputs, and a whitespace-only input yields it.
C6_ValidationOrder ==
    pc = "parsed" =>
        /\ hex = <<>> => ret = ColorErr("InputIsEmpty")
        /\ (hex # <<>> /\ HasNonAscii(hex)) => ret = ColorErr("InputIsNotAscii")
        /\ ret = ColorErr("InvalidInputLength") => (hex # <<>> /\ ~HasNonAscii(hex))
        /\ (hex # <<>> /\ \A i \in 1..Len(hex) : hex[i] \in {9, 10, 11, 12, 13, 32})
               => ret = ColorErr("InvalidInputLength")

\* a non-ASCII input whose trimmed form is 7 bytes long and starts with '#'
C6_Witness ==
    /\ pc = "parsed" /\ HasNonAscii(hex) /\ ByteLen(trim(hex)) = 7 /\ trim(hex)[1] = 35
    /\ ret = ColorErr("InputIsNotAscii")

\* C7: from_hex of the 6-digit encoding of a byte triple returns the Color with
\* exactly these channels, whatever the case of the digits, with or without '#'
\* and surrounding whitespace; no other byte value gives the same channel.
C7_RoundTrip ==
    pc = "parsed" =>
        /\ ret = ColorOk(Color_new(channels[1], channels[2], channels[3]))
        /\ <<f32_to_int(ret.color.red), f32_to_int(ret.color.green),
             f32_to_int(ret.color.blue)>> = channels
        /\ \A x \in 0..255 :
              /\ U8AsF32[x] = ret.color.red => x = channels[1]
              /\ U8AsF32[x] = ret.color.green => x = channels[2]
              /\ U8AsF32[x] = ret.color.blue => x = channels[3]

\* " #FfA500\n" parsed to (255, 165, 0)
C7_Witness ==
    /\ pc = "parsed" /\ channels = <<255, 165, 0>>
    /\ hex = <<32, 35, 70, 102, 65, 53, 48, 48, 10>>
    /\ ret.tag = "Ok" /\ f32_to_int(ret.color.green) = 165

\* C8: contrast_ratio(a, b) = contrast_ratio(b, a).
C8_Symmetric ==
    pc = "done" => ratio.fb = ratio.bf

\* main's pair: the target colour against white, both orders computed
C8_Witness ==
    /\ pc = "done" /\ foreground = Target /\ background = White
    /\ ratio.fb = ratio.bf /\ ratio.fb > One

\* C9: contrast_ratio(a, b) >= 1, and = 1 when the two luminances are equal.
C9_AtLeastOne ==
    /\ pc \in {"swapped", "done"} =>
          /\ ratio.fb >= One
          /\ relative_luminance(foreground) = relative_luminance(background)
                => ratio.fb = One
    /\ pc = "done" => ratio.bf >= One

\* contrast_ratio(white, white) = 1
C9_Witness ==
    pc = "done" /\ foreground = White /\ background = White /\ ratio.fb = One

\* C10: hex_to_dec never returns LeftDigitOutOfRange or RightDigitOutOfRange.
C10_OutOfRangeUnreachable ==
    pc = "decoded" => ret.err \notin {"LeftDigitOutOfRange", "RightDigitOutOfRange"}

\* both digits pass the base-16 check with the largest value, 15
C10_Witness ==
    pc = "decoded" /\ hex = <<102, 70>> /\ ret = Ok(255)

=============================================================================
